---------------------------- MODULE Spec2Model ----------------------------
(***************************************************************************)
(* bigfoldergen: a model of src/main.rs.                                   *)
(*                                                                         *)
(* main binds its configuration (argument merge, three parse_size calls,   *)
(* the max < min repair), creates the destination folder and then runs     *)
(* the generation loop, one file per iteration, until current_size has     *)
(* reached total_size.  Every `?` of main is an early return with an       *)
(* error; the filesystem calls may fail at any time.                       *)
(*                                                                         *)
(* A path is a sequence of components.  The filesystem is the set of       *)
(* directories `dirs` and the function `files` from file paths to sizes.   *)
(***************************************************************************)
EXTENDS Integers, Sequences, FiniteSets, TLC

\* ------------------------------------------------------------------ bounds
MaxTarget == 2          \* largest numeric magnitude given for the size argument
MaxSize == 2            \* largest numeric magnitude given for --min and --max
MaxDepth == 1           \* largest value given for -d

\* The loop itself has no bound on the number of files; with a sampled size
\* of 0 it need not advance.  The model stops sampling after MaxFiles files:
\* a run with min_file_size > 0 has reached its target before that.
MaxFiles == MaxTarget + 1

\* Option<T>
None == [some |-> FALSE]
Some(v) == [some |-> TRUE, value |-> v]

\* no error returned (yet)
NoError == [kind |-> "none"]

\* the destination folder on the command line, as path components
FolderArg == <<"tmp", "t1">>

\* the names rng.sample_iter(&Alphanumeric).take(8) may produce (two of them)
DirNames == {"aaaaaaaa", "bbbbbbbb"}

\* ------------------------------------------------------------ size strings
\* A size string is a numeric magnitude followed by a unit suffix.
UnitMultiplier == [u \in {"", "b", "B"} |-> 1]

SizeString(n, u) == [num |-> n, unit |-> u]

\* the size strings the command line is given
SizeArgs(maxNum) ==
    {SizeString(n, "b") : n \in 0..maxNum} \cup {SizeString(1, "potato")}

\* the first character of a unit suffix, the one Byte::parse_str rejects
FirstChar(u) == IF u = "potato" THEN "p" ELSE "?"

Ok(v) == [ok |-> TRUE, value |-> v]
Err(e) == [ok |-> FALSE, error |-> e]

\* parse_size taking an unknown unit for bytes
parse_size_lenient(s) == Ok(s.num)

\* parse_size: Byte::parse_str(s, true), its ParseError turned into MyError
parse_size(s) ==
    IF s.unit \in DOMAIN UnitMultiplier
    THEN Ok(s.num * UnitMultiplier[s.unit])
    ELSE Err([kind |-> "SizeParseError", character |-> FirstChar(s.unit)])

\* Option::or
OptionOr(a, b) == IF a.some THEN a ELSE b

\* the binding without its repair
RepairMaxNone(min, max) == max

\* the max < min repair of main
RepairMax(min, max) == IF max < min THEN min ELSE max

\* ------------------------------------------------------------------ paths
Digit(d) ==
    CASE d = 0 -> "0" [] d = 1 -> "1" [] d = 2 -> "2" [] d = 3 -> "3"
      [] d = 4 -> "4" [] d = 5 -> "5" [] d = 6 -> "6" [] d = 7 -> "7"
      [] d = 8 -> "8" [] d = 9 -> "9"

RECURSIVE Decimal(_)
\* the decimal digits of n, as format!("{}", n) writes them
Decimal(n) == IF n < 10 THEN Digit(n) ELSE Decimal(n \div 10) \o Digit(n % 10)

\* the file name without its number
FileNameNoNumber(n) == "file_" \o ".txt"

\* format!("file_{}.txt", file_number)
FileName(n) == "file_" \o Decimal(n) \o ".txt"

\* the component sequences create_nested_path may draw for a given depth
NameSeqs(depth) == [1..depth -> DirNames]

\* create_nested_path: base_path with one sampled name joined per level
RECURSIVE create_nested_path(_, _, _)
create_nested_path(base_path, d, names) ==
    IF d = 0 THEN base_path
    ELSE Append(create_nested_path(base_path, d - 1, names), names[d])

\* Path::join of a single component
Join(path, name) == Append(path, name)

\* a path and all its ancestors, the directories create_dir_all ensures
Ancestors(path) == {SubSeq(path, 1, k) : k \in 1..Len(path)}

\* sampling from 0 instead of lo
GenRangeFromZero(lo, hi) == 0..hi

\* sampling one past hi
GenRangePastEnd(lo, hi) == lo..(hi + 1)

\* gen_range(lo..=hi): both endpoints included
GenRange(lo, hi) == lo..hi

\* the loop running once more at the target
LoopCondLe(cur, total) == cur <= total

\* the loop condition of main
LoopCond(cur, total) == cur < total

\* the running total left as it was
AddSizeNone(cur, file_size) == cur

\* current_size += file_size (u64; the model's values stay far below 2^64)
AddSize(cur, file_size) == cur + file_size

\* file_number += 1
NextNumber(n) == n + 1

\* ------------------------------------------------------------------ state
VARIABLES
    args,           \* the parsed command line (Args), fixed for the run
    pc,             \* where main is: "bind", "mkroot", "loop", "done", "failed"
    folder_path,    \* the resolved destination folder
    total_size, depth, min_file_size, max_file_size,
    current_size, file_number,
    dirs, files,    \* the filesystem
    pb_position,    \* the progress bar's position
    stdout,         \* the final report, None before it is printed
    error           \* the error main returned, NoError if none

vars == <<args, pc, folder_path, total_size, depth, min_file_size,
          max_file_size, current_size, file_number, dirs, files,
          pb_position, stdout, error>>

\* the ways the two required arguments are given: by flag, positionally, not at all
ArgForms == {<<"flag", "pos">>, <<"none", "flag">>, <<"flag", "none">>}

ArgsOf(form, size, d, min, max) ==
    [folder_path |-> IF form[1] = "flag" THEN Some(FolderArg) ELSE None,
     positional_folder_path |-> IF form[1] = "pos" THEN Some(FolderArg) ELSE None,
     size |-> IF form[2] = "flag" THEN Some(size) ELSE None,
     positional_size |-> IF form[2] = "pos" THEN Some(size) ELSE None,
     d |-> d, min |-> min, max |-> max]

EmptyFiles == [p \in {} |-> 0]

Init ==
    /\ \E form \in ArgForms, size \in SizeArgs(MaxTarget), d \in 0..MaxDepth,
          min \in SizeArgs(MaxSize), max \in SizeArgs(MaxSize) :
            args = ArgsOf(form, size, d, min, max)
    /\ pc = "bind"
    /\ folder_path = <<>>
    /\ total_size = 0 /\ depth = 0 /\ min_file_size = 0 /\ max_file_size = 0
    /\ current_size = 0 /\ file_number = 0
    /\ dirs \in {{}, Ancestors(FolderArg)}
    /\ files = EmptyFiles
    /\ pb_position = 0
    /\ stdout = None
    /\ error = NoError

\* the error recorded and main going on
FailAndContinue(e) == pc' = pc /\ error' = e

\* `?`: main returns the error
Fail(e) == pc' = "failed" /\ error' = e

\* std::io::Error, boxed as it is by `?`: the failed call, and nothing else
IoError(op) == [kind |-> "Io", op |-> op]

\* fs::create_dir_all: the directory and every missing ancestor
CreateDirAll(d, path) == d \cup Ancestors(path)

\* what a failed create_dir_all may leave behind: some of the ancestors
PartialDirs(d, path) ==
    {d \cup Ancestors(SubSeq(path, 1, k)) : k \in 0..(Len(path) - 1)}

\* the file at path p with size n: File::create truncates, write_all fills
PutFile(f, p, n) == [q \in DOMAIN f \cup {p} |-> IF q = p THEN n ELSE f[q]]

\* main, lines 76-104: the argument merge, the three parse_size calls with
\* their `?`, the repair, and the run state's initial values
Bind ==
    /\ pc = "bind"
    /\ LET folder == OptionOr(args.folder_path, args.positional_folder_path)
           size == OptionOr(args.size, args.positional_size)
       IN  IF ~folder.some
           THEN /\ Fail([kind |-> "Message", text |-> "Folder path must be specified"])
                /\ UNCHANGED <<folder_path, total_size, depth, min_file_size, max_file_size>>
           ELSE IF ~size.some
           THEN /\ Fail([kind |-> "Message", text |-> "Size be specified"])
                /\ folder_path' = folder.value
                /\ UNCHANGED <<total_size, depth, min_file_size, max_file_size>>
           ELSE LET total == parse_size(size.value)
                    min == parse_size(args.min)
                    max == parse_size(args.max)
                IN  /\ folder_path' = folder.value
                    /\ IF ~total.ok
                       THEN /\ Fail(total.error)
                            /\ UNCHANGED <<total_size, depth, min_file_size, max_file_size>>
                       ELSE IF ~min.ok
                       THEN /\ Fail(min.error)
                            /\ total_size' = total.value
                            /\ depth' = args.d
                            /\ UNCHANGED <<min_file_size, max_file_size>>
                       ELSE IF ~max.ok
                       THEN /\ Fail(max.error)
                            /\ total_size' = total.value
                            /\ depth' = args.d
                            /\ min_file_size' = min.value
                            /\ UNCHANGED max_file_size
                       ELSE /\ pc' = "mkroot"
                            /\ total_size' = total.value
                            /\ depth' = args.d
                            /\ min_file_size' = min.value
                            /\ max_file_size' = RepairMax(min.value, max.value)
                            /\ UNCHANGED error
    /\ UNCHANGED <<args, current_size, file_number, dirs, files, pb_position, stdout>>

\* main, line 107: fs::create_dir_all(&folder_path)?
CreateRoot ==
    /\ pc = "mkroot"
    /\ \/ /\ dirs' = CreateDirAll(dirs, folder_path)
          /\ pc' = "loop"
          /\ UNCHANGED error
       \/ /\ dirs' \in PartialDirs(dirs, folder_path)
          /\ Fail(IoError("create_dir_all"))
    /\ UNCHANGED <<args, folder_path, total_size, depth, min_file_size,
                   max_file_size, current_size, file_number, files,
                   pb_position, stdout>>

\* main, lines 108-124: one iteration of the loop
Iteration ==
    /\ pc = "loop"
    /\ LoopCond(current_size, total_size)
    /\ file_number < MaxFiles
    /\ \E file_size \in GenRange(min_file_size, max_file_size),
          nested_depth \in GenRange(0, depth) :
        \E names \in NameSeqs(nested_depth) :
          LET file_name == FileName(file_number)
              file_path == create_nested_path(folder_path, nested_depth, names)
              full_file_path == Join(file_path, file_name)
          IN  \/ \* create_dir_all fails
                 /\ dirs' \in PartialDirs(dirs, file_path)
                 /\ Fail(IoError("create_dir_all"))
                 /\ UNCHANGED <<files, current_size, file_number, pb_position>>
              \/ \* File::create fails
                 /\ dirs' = CreateDirAll(dirs, file_path)
                 /\ Fail(IoError("File::create"))
                 /\ UNCHANGED <<files, current_size, file_number, pb_position>>
              \/ \* write_all fails after some of the bytes
                 /\ dirs' = CreateDirAll(dirs, file_path)
                 /\ \E written \in 0..(file_size - 1) :
                        files' = PutFile(files, full_file_path, written)
                 /\ Fail(IoError("write_all"))
                 /\ UNCHANGED <<current_size, file_number, pb_position>>
              \/ \* the iteration completes
                 /\ dirs' = CreateDirAll(dirs, file_path)
                 /\ files' = PutFile(files, full_file_path, file_size)
                 /\ current_size' = AddSize(current_size, file_size)
                 /\ file_number' = NextNumber(file_number)
                 /\ pb_position' = current_size'
                 /\ UNCHANGED <<pc, error>>
    /\ UNCHANGED <<args, folder_path, total_size, depth, min_file_size,
                   max_file_size, stdout>>

\* main, lines 126-134: the loop has ended; the report, and Ok(())
Finish ==
    /\ pc = "loop"
    /\ ~LoopCond(current_size, total_size)
    /\ stdout' = Some([files |-> file_number, bytes |-> current_size])
    /\ pc' = "done"
    /\ UNCHANGED <<args, folder_path, total_size, depth, min_file_size,
                   max_file_size, current_size, file_number, dirs, files,
                   pb_position, error>>

Next == Bind \/ CreateRoot \/ Iteration \/ Finish

Spec == Init /\ [][Next]_vars

\* main runs on one thread and every call returns: no step waits forever
LiveSpec == Spec /\ WF_vars(Next)

\* the process's exit code
ExitCode == IF pc = "done" THEN 0 ELSE IF pc = "failed" THEN 1 ELSE -1

\* ----------------------------------------------------------------- claims

\* the configuration has been bound: all of main's lines 76-93 succeeded
Bound == pc \in {"mkroot", "loop", "done"} \/ (pc = "failed" /\ error.kind = "Io")

Last(path) == path[Len(path)]

\* the names of the files of completed iterations
CompletedNames == {FileName(i) : i \in 0..(file_number - 1)}

\* the files of completed iterations
CompletedFiles == {p \in DOMAIN files : Last(p) \in CompletedNames}

\* the number of directory components between folder_path and the file at p
Depth(p) == Len(p) - Len(folder_path) - 1

\* C1: with total_size > 0 and 0 < min_file_size <= max_file_size, once the
\* loop has finished total_size <= current_size < total_size + max_file_size.
C1_Overshoot ==
    (pc = "done" /\ total_size > 0 /\ 0 < min_file_size /\ min_file_size <= max_file_size)
        => (total_size <= current_size /\ current_size < total_size + max_file_size)

\* a finished run that overshoots its target by max_file_size - 1 bytes
C1_Witness ==
    /\ pc = "done" /\ total_size > 0 /\ min_file_size > 0 /\ max_file_size > 1
    /\ current_size = total_size + max_file_size - 1

\* C2: with min_file_size > 0 the loop, once entered, ends: main reaches its
\* report or returns a filesystem error; the loop is left for the report only
\* with current_size >= total_size, and a file is only written while
\* current_size < total_size.
C2_Terminates ==
    /\ (pc = "loop" /\ min_file_size > 0) ~> (pc = "done" \/ pc = "failed")
    /\ [][(pc = "loop" /\ pc' = "done") => current_size >= total_size]_vars
    /\ [][file_number' # file_number => current_size < total_size]_vars

\* a run with min_file_size > 0 that reached its report after several files
C2_Witness == pc = "done" /\ min_file_size > 0 /\ file_number >= 2 /\ stdout.some

\* C3: with min_file_size = max_file_size = 0 and total_size > 0 no iteration
\* of the loop is executed and no file is created.
C3_ImpossibleProgress ==
    (Bound /\ min_file_size = 0 /\ max_file_size = 0 /\ total_size > 0)
        => (file_number = 0 /\ DOMAIN files = {})

\* C4: at every loop boundary and at the report the files are named exactly
\* file_0.txt .. file_{file_number-1}.txt, one file each; each completed
\* iteration adds the one file named after file_number and leaves every
\* earlier file as it was.
C4_FileNames ==
    /\ [](pc \in {"loop", "done"} =>
            /\ {Last(p) : p \in DOMAIN files} = CompletedNames
            /\ Cardinality(DOMAIN files) = file_number)
    /\ [](\A i \in 0..(file_number - 1) :
            Cardinality({p \in DOMAIN files : Last(p) = FileName(i)}) = 1)
    /\ [][file_number' # file_number =>
            /\ file_number' = file_number + 1
            /\ \E p \in DOMAIN files' \ DOMAIN files :
                  /\ DOMAIN files' = DOMAIN files \cup {p}
                  /\ Last(p) = FileName(file_number)
            /\ \A q \in DOMAIN files : files'[q] = files[q]]_vars

\* a finished run of three files, two of them in the same directory
C4_Witness ==
    /\ pc = "done" /\ file_number = 3
    /\ \E p, q \in DOMAIN files :
          p # q /\ SubSeq(p, 1, Len(p) - 1) = SubSeq(q, 1, Len(q) - 1)

\* C5: every file of a completed iteration has a size in
\* min_file_size..max_file_size, and exactly min_file_size when the two are equal.
C5_FileSizes ==
    Bound =>
        \A p \in CompletedFiles :
            /\ min_file_size <= files[p] /\ files[p] <= max_file_size
            /\ (min_file_size = max_file_size => files[p] = min_file_size)

\* a finished run holding a file of the smallest and one of the largest size
C5_Witness ==
    /\ pc = "done" /\ min_file_size < max_file_size
    /\ \E p, q \in CompletedFiles :
          files[p] = min_file_size /\ files[q] = max_file_size

\* C6: every file lies under folder_path with between 0 and depth directories
\* in between; with depth = 0, directly in folder_path.
C6_Depth ==
    Bound =>
        \A p \in DOMAIN files :
            /\ SubSeq(p, 1, Len(folder_path)) = folder_path
            /\ 0 <= Depth(p) /\ Depth(p) <= depth
            /\ (depth = 0 => SubSeq(p, 1, Len(p) - 1) = folder_path)
            /\ SubSeq(p, 1, Len(p) - 1) \in dirs

\* a run with one file directly in folder_path and one depth levels below
C6_Witness ==
    /\ depth > 0
    /\ \E p, q \in DOMAIN files : Depth(p) = 0 /\ Depth(q) = depth

\* C7: with total_size = 0 no iteration runs and no file exists; the run
\* fails only if creating folder_path fails, and otherwise the folder and
\* its ancestors exist, the report counts 0 files and the exit code is 0.
C7_ZeroTarget ==
    (Bound /\ total_size = 0) =>
        /\ file_number = 0 /\ DOMAIN files = {} /\ current_size = 0
        /\ (pc = "failed" => error = IoError("create_dir_all"))
        /\ (pc \in {"loop", "done"} => Ancestors(folder_path) \subseteq dirs)
        /\ (pc = "loop" => ENABLED Finish)
        /\ (pc = "done" =>
                stdout = Some([files |-> 0, bytes |-> 0]) /\ ExitCode = 0)

\* a run with target 0 that has printed its report
C7_Witness == pc = "done" /\ total_size = 0 /\ stdout.some /\ folder_path \in dirs

\* the unit suffix of a size string is not one Byte::parse_str accepts
Malformed(s) == s.unit \notin {"", "b", "B"}

\* both required arguments were given, and one of the three size strings is malformed
BadSizeGiven ==
    /\ OptionOr(args.folder_path, args.positional_folder_path).some
    /\ OptionOr(args.size, args.positional_size).some
    /\ \/ Malformed(OptionOr(args.size, args.positional_size).value)
       \/ Malformed(args.min)
       \/ Malformed(args.max)

\* C8: if any of the three size strings is malformed, main returns the
\* SizeParseError from its binding: the loop is never reached, no directory
\* and no file is created, and the exit code is not 0.
C8_ParseErrorFirst ==
    BadSizeGiven =>
        /\ pc \in {"bind", "failed"}
        /\ (pc = "failed" => error.kind = "SizeParseError" /\ ExitCode # 0)
        /\ file_number = 0 /\ DOMAIN files = {}
        /\ dirs \in {{}, Ancestors(FolderArg)}

\* a run that failed on --max alone being malformed
C8_Witness ==
    /\ pc = "failed" /\ error.kind = "SizeParseError"
    /\ BadSizeGiven /\ Malformed(args.max) /\ ~Malformed(args.min)
    /\ ~Malformed(OptionOr(args.size, args.positional_size).value)

C10_Repair ==
    Bound =>
        LET min == parse_size(args.min).value
            max == parse_size(args.max).value
        IN  /\ min_file_size <= max_file_size
            /\ min_file_size = min
            /\ max_file_size = (IF max < min THEN min ELSE max)
            /\ RepairMax(min_file_size, max_file_size) = max_file_size

\* a bound configuration whose --max was below its --min
C10_Witness ==
    /\ Bound /\ pc = "done" /\ file_number > 0
    /\ parse_size(args.max).value < parse_size(args.min).value

=============================================================================
